---- MODULE Spec2Model ----
(***************************************************************************)
(* A model of src/workers.rs: the Cloudflare Workers Connection of the     *)
(* libsql client.  Strings are sequences of one-character strings, so that *)
(* the lexical tests of the code (contains "://") and its conversions      *)
(* (format!, base64) are computed and not assumed.                         *)
(***************************************************************************)
EXTENDS Naturals, Sequences, FiniteSets, TLC

VARIABLES
    call,       \* the constructor call that was made: its operation and arguments
    conn,       \* the Connection it returned (NoConn: none)
    cerr,       \* the error it returned (NoErr: none)
    lookups,    \* the secrets connect_from_ctx looked up, in order
    pc,         \* per batch invocation: where it is suspended
    stmts,      \* per batch invocation: the statements it was given
    init,       \* per batch invocation: its request_init (headers, body, method)
    count,      \* per batch invocation: stmts_count
    reqs,       \* per batch invocation: the requests it has sent, in order
    outs,       \* per batch invocation: what each send resolved to, in order
    response,   \* per batch invocation: the response it holds (NoResp: none)
    resp,       \* per batch invocation: what the read of the response's text gave
    result      \* per batch invocation: what batch returned (NoResult: not yet)

vars == <<call, conn, cerr, lookups, pc, stmts, init, count, reqs, outs, response, resp, result>>

connVars == <<call, conn, cerr, lookups>>

batchVars == <<pc, stmts, init, count, reqs, outs, response, resp, result>>

(***************************************************************************)
(* Bounds of the model.                                                    *)
(***************************************************************************)
MaxUrlLen == 4      \* the url strings given to connect are at most this long
MaxStmts == 2       \* a batch holds at most this many statements
MaxPairs == 2       \* a Url's query holds at most this many key=value pairs

(***************************************************************************)
(* Strings.                                                                *)
(***************************************************************************)
\* the absent value of an optional string: no string of characters equals it
None == <<"None">>

\* str::contains: some window of s equals pat
Contains(s, pat) ==
    \E i \in 1..(Len(s) + 1) :
        /\ i + Len(pat) - 1 <= Len(s)
        /\ SubSeq(s, i, i + Len(pat) - 1) = pat

\* the sequences over S of length at most n
RECURSIVE SeqsUpTo(_, _)
SeqsUpTo(S, n) ==
    IF n = 0 THEN {<<>>}
    ELSE LET shorter == SeqsUpTo(S, n - 1)
         IN  shorter \cup {Append(s, x) : s \in {q \in shorter : Len(q) = n - 1}, x \in S}

SchemeSep == <<":", "/", "/">>
Https == <<"h", "t", "t", "p", "s">> \o SchemeSep
QueriesSuffix == <<"/", "q", "u", "e", "r", "i", "e", "s">>
BearerPrefix == <<"B", "e", "a", "r", "e", "r", " ">>
BasicPrefix == <<"B", "a", "s", "i", "c", " ">>
TokenKey == <<"t", "o", "k", "e", "n">>

(***************************************************************************)
(* base64::engine::general_purpose::STANDARD.encode, on the bytes of an    *)
(* ASCII string.                                                           *)
(***************************************************************************)
\* the grave accent, code 96, which a TLA+ string cannot hold
Grave == "GRAVE"

\* the printable ASCII characters, from code 32 (space) to code 126
AsciiPrintable ==
    <<" ", "!", "\"", "#", "$", "%", "&", "'", "(", ")", "*", "+", ",", "-", ".", "/",
      "0", "1", "2", "3", "4", "5", "6", "7", "8", "9", ":", ";", "<", "=", ">", "?",
      "@", "A", "B", "C", "D", "E", "F", "G", "H", "I", "J", "K", "L", "M", "N", "O",
      "P", "Q", "R", "S", "T", "U", "V", "W", "X", "Y", "Z", "[", "\\", "]", "^", "_",
      Grave, "a", "b", "c", "d", "e", "f", "g", "h", "i", "j", "k", "l", "m", "n", "o",
      "p", "q", "r", "s", "t", "u", "v", "w", "x", "y", "z", "{", "|", "}", "~">>

\* the line feed, code 10: the one control character the model uses
LF == "\n"

Byte(c) ==
    IF c = LF THEN 10
    ELSE 31 + (CHOOSE i \in 1..Len(AsciiPrintable) : AsciiPrintable[i] = c)

Base64Alphabet ==
    <<"A", "B", "C", "D", "E", "F", "G", "H", "I", "J", "K", "L", "M", "N", "O", "P",
      "Q", "R", "S", "T", "U", "V", "W", "X", "Y", "Z", "a", "b", "c", "d", "e", "f",
      "g", "h", "i", "j", "k", "l", "m", "n", "o", "p", "q", "r", "s", "t", "u", "v",
      "w", "x", "y", "z", "0", "1", "2", "3", "4", "5", "6", "7", "8", "9", "+", "/">>

Sextet(n) == Base64Alphabet[n + 1]

\* a variant of Base64Encode that leaves the padding out
RECURSIVE Base64EncodeNoPad(_)
Base64EncodeNoPad(s) ==
    IF Len(s) = 0 THEN <<>>
    ELSE IF Len(s) = 1 THEN
        LET a == Byte(s[1])
        IN  <<Sextet(a \div 4), Sextet((a % 4) * 16)>>
    ELSE IF Len(s) = 2 THEN
        LET a == Byte(s[1])
            b == Byte(s[2])
        IN  <<Sextet(a \div 4), Sextet((a % 4) * 16 + b \div 16), Sextet((b % 16) * 4)>>
    ELSE
        LET a == Byte(s[1])
            b == Byte(s[2])
            c == Byte(s[3])
        IN  <<Sextet(a \div 4), Sextet((a % 4) * 16 + b \div 16),
              Sextet((b % 16) * 4 + c \div 64), Sextet(c % 64)>>
            \o Base64EncodeNoPad(SubSeq(s, 4, Len(s)))

\* three bytes at a time give four characters; a last group of one or two
\* bytes is padded with "="
RECURSIVE Base64Encode(_)
Base64Encode(s) ==
    IF Len(s) = 0 THEN <<>>
    ELSE IF Len(s) = 1 THEN
        LET a == Byte(s[1])
        IN  <<Sextet(a \div 4), Sextet((a % 4) * 16), "=", "=">>
    ELSE IF Len(s) = 2 THEN
        LET a == Byte(s[1])
            b == Byte(s[2])
        IN  <<Sextet(a \div 4), Sextet((a % 4) * 16 + b \div 16),
              Sextet((b % 16) * 4), "=">>
    ELSE
        LET a == Byte(s[1])
            b == Byte(s[2])
            c == Byte(s[3])
        IN  <<Sextet(a \div 4), Sextet((a % 4) * 16 + b \div 16),
              Sextet((b % 16) * 4 + c \div 64), Sextet(c % 64)>>
            \o Base64Encode(SubSeq(s, 4, Len(s)))

(***************************************************************************)
(* The Connection and its two plain constructors.                          *)
(***************************************************************************)
NoConn == [base_url |-> None, url_for_queries |-> None, auth |-> None]
NoErr == "NoErr"

\* Connection::connect
connect(url, token) ==
    LET base_url == IF ~Contains(url, SchemeSep) THEN Https \o url ELSE url
        url_for_queries == base_url \o QueriesSuffix
    IN  [base_url |-> base_url,
         url_for_queries |-> url_for_queries,
         auth |-> BearerPrefix \o token]

\* a variant of connect_with_credentials that looks for the scheme at the start only
connect_with_credentials_prefix(url, username, pass) ==
    LET starts == Len(url) >= Len(Https) /\ SubSeq(url, 1, Len(Https)) = Https
        base_url == IF ~starts THEN Https \o url ELSE url
        url_for_queries == base_url \o QueriesSuffix
    IN  [base_url |-> base_url,
         url_for_queries |-> url_for_queries,
         auth |-> BasicPrefix \o Base64Encode(username \o <<":">> \o pass)]

\* Connection::connect_with_credentials
connect_with_credentials(url, username, pass) ==
    LET base_url == IF ~Contains(url, SchemeSep) THEN Https \o url ELSE url
        url_for_queries == base_url \o QueriesSuffix
    IN  [base_url |-> base_url,
         url_for_queries |-> url_for_queries,
         auth |-> BasicPrefix \o Base64Encode(username \o <<":">> \o pass)]

(***************************************************************************)
(* url::Url, as far as connect_from_url uses it: the parts of a parsed URL,*)
(* its serialization, its query pairs and the two setters.  password is    *)
(* None or a string; query is None or the text after "?".  A Url without a *)
(* host (mailto:x, unix:/run/x) has no userinfo.                           *)
(***************************************************************************)
\* Url::as_str
AsStr(u) ==
    LET userinfo ==
            IF u.username = <<>> /\ u.password = None THEN <<>>
            ELSE u.username
                 \o (IF u.password = None THEN <<>> ELSE <<":">> \o u.password)
                 \o <<"@">>
        authority == IF u.has_host THEN <<"/", "/">> \o userinfo \o u.host ELSE <<>>
        query == IF u.query = None THEN <<>> ELSE <<"?">> \o u.query
    IN  u.scheme \o <<":">> \o authority \o u.path \o query

\* the pieces of s between occurrences of the character sep
RECURSIVE SplitOn(_, _)
SplitOn(s, sep) ==
    IF \A i \in 1..Len(s) : s[i] # sep THEN <<s>>
    ELSE LET k == CHOOSE i \in 1..Len(s) :
                      s[i] = sep /\ \A j \in 1..(i - 1) : s[j] # sep
         IN  <<SubSeq(s, 1, k - 1)>> \o SplitOn(SubSeq(s, k + 1, Len(s)), sep)

\* form_urlencoded decoding of one name or value: "+" is a space
\* (no percent escapes occur in the model's URLs)
FormDecode(s) == [i \in 1..Len(s) |-> IF s[i] = "+" THEN " " ELSE s[i]]

\* Url::query_pairs: the non-empty pieces between "&", each cut at its first "="
QueryPairs(u) ==
    LET text == IF u.query = None THEN <<>> ELSE u.query
        pieces == SelectSeq(SplitOn(text, "&"), LAMBDA p : p # <<>>)
        Pair(p) ==
            IF \A i \in 1..Len(p) : p[i] # "=" THEN <<FormDecode(p), <<>>>>
            ELSE LET k == CHOOSE i \in 1..Len(p) :
                              p[i] = "=" /\ \A j \in 1..(i - 1) : p[j] # "="
                 IN  <<FormDecode(SubSeq(p, 1, k - 1)),
                       FormDecode(SubSeq(p, k + 1, Len(p)))>>
    IN  [i \in 1..Len(pieces) |-> Pair(pieces[i])]

FileScheme == <<"f", "i", "l", "e">>

\* Url::set_username and Url::set_password refuse a Url that has no host, an
\* empty host or the file scheme
CannotHaveUserinfo(u) == ~u.has_host \/ u.host = <<>> \/ u.scheme = FileScheme

\* Url::set_username
set_username(u, name) ==
    IF CannotHaveUserinfo(u) THEN [ok |-> FALSE, url |-> u]
    ELSE [ok |-> TRUE, url |-> [u EXCEPT !.username = name]]

\* Url::set_password
set_password(u, pass) ==
    IF CannotHaveUserinfo(u) THEN [ok |-> FALSE, url |-> u]
    ELSE [ok |-> TRUE, url |-> [u EXCEPT !.password = pass]]

ErrUsername == "Could not extract username from URL. Invalid URL?"
ErrPassword == "Could not extract password from URL. Invalid URL?"

\* a variant of FindToken that takes the last such pair
FindTokenLast(pairs) ==
    LET hits == SelectSeq(pairs, LAMBDA kv : kv[1] = TokenKey)
    IN  IF hits = <<>> THEN None ELSE hits[Len(hits)][2]

\* params.find(|(param_key, _)| param_key == "token"): the first such pair
FindToken(pairs) ==
    LET hits == SelectSeq(pairs, LAMBDA kv : kv[1] = TokenKey)
    IN  IF hits = <<>> THEN None ELSE hits[1][2]

\* a variant of connect_from_url that clears the username and leaves the password
connect_from_url_keeps_password(u) ==
    LET token == FindToken(QueryPairs(u))
        username == u.username
        password == IF u.password = None THEN <<>> ELSE u.password
        cleared1 == set_username(u, <<>>)
    IN  IF token # None
            THEN [conn |-> connect(AsStr(u), token), err |-> NoErr]
        ELSE IF ~cleared1.ok
            THEN [conn |-> NoConn, err |-> ErrUsername]
        ELSE [conn |-> connect_with_credentials(AsStr(cleared1.url), username, password),
              err |-> NoErr]

\* Connection::connect_from_url
connect_from_url(u) ==
    LET token == FindToken(QueryPairs(u))
        username == u.username
        password == IF u.password = None THEN <<>> ELSE u.password
        cleared1 == set_username(u, <<>>)
        cleared2 == set_password(cleared1.url, None)
    IN  IF token # None
            THEN [conn |-> connect(AsStr(u), token), err |-> NoErr]
        ELSE IF ~cleared1.ok
            THEN [conn |-> NoConn, err |-> ErrUsername]
        ELSE IF ~cleared2.ok
            THEN [conn |-> NoConn, err |-> ErrPassword]
        ELSE [conn |-> connect_with_credentials(AsStr(cleared2.url), username, password),
              err |-> NoErr]

(***************************************************************************)
(* worker::RouteContext, as far as connect_from_ctx uses it: the secrets   *)
(* of the context, a value or None for each key.                           *)
(***************************************************************************)
KeyToken == "LIBSQL_CLIENT_TOKEN"
KeyUrl == "LIBSQL_CLIENT_URL"
KeyUser == "LIBSQL_CLIENT_USER"
KeyPass == "LIBSQL_CLIENT_PASS"

\* ctx.secret(key): the value, or the error of a binding that is not there
secret(ctx, key) ==
    IF ctx[key] = None THEN [ok |-> FALSE, value |-> None]
    ELSE [ok |-> TRUE, value |-> ctx[key]]

\* anyhow!("{e}") of that error
ErrMissing(key) == "Binding " \o key \o " is undefined"

\* a variant of connect_from_ctx that tries the three keys whenever the first
\* attempt fails, also when the token was found and the url was not
connect_from_ctx_always_falls_back(ctx) ==
    LET token == secret(ctx, KeyToken)
        url == secret(ctx, KeyUrl)
        user == secret(ctx, KeyUser)
        pass == secret(ctx, KeyPass)
        first == IF token.ok THEN <<KeyToken, KeyUrl>> ELSE <<KeyToken>>
    IN  IF token.ok /\ url.ok
            THEN [conn |-> connect(url.value, token.value), err |-> NoErr,
                  lookups |-> <<KeyToken, KeyUrl>>]
        ELSE IF ~url.ok
            THEN [conn |-> NoConn, err |-> ErrMissing(KeyUrl),
                  lookups |-> first \o <<KeyUrl>>]
        ELSE IF ~user.ok
            THEN [conn |-> NoConn, err |-> ErrMissing(KeyUser),
                  lookups |-> first \o <<KeyUrl, KeyUser>>]
        ELSE IF ~pass.ok
            THEN [conn |-> NoConn, err |-> ErrMissing(KeyPass),
                  lookups |-> first \o <<KeyUrl, KeyUser, KeyPass>>]
        ELSE [conn |-> connect_with_credentials(url.value, user.value, pass.value),
              err |-> NoErr, lookups |-> first \o <<KeyUrl, KeyUser, KeyPass>>]

\* Connection::connect_from_ctx: lines 113-120 when the token is found, lines
\* 122-132 when it is not; the arguments are looked up left to right and the
\* first ? that fails returns
connect_from_ctx(ctx) ==
    LET token == secret(ctx, KeyToken)
        url == secret(ctx, KeyUrl)
        user == secret(ctx, KeyUser)
        pass == secret(ctx, KeyPass)
    IN  IF token.ok
            THEN IF ~url.ok
                     THEN [conn |-> NoConn, err |-> ErrMissing(KeyUrl),
                           lookups |-> <<KeyToken, KeyUrl>>]
                     ELSE [conn |-> connect(url.value, token.value), err |-> NoErr,
                           lookups |-> <<KeyToken, KeyUrl>>]
        ELSE IF ~url.ok
            THEN [conn |-> NoConn, err |-> ErrMissing(KeyUrl),
                  lookups |-> <<KeyToken, KeyUrl>>]
        ELSE IF ~user.ok
            THEN [conn |-> NoConn, err |-> ErrMissing(KeyUser),
                  lookups |-> <<KeyToken, KeyUrl, KeyUser>>]
        ELSE IF ~pass.ok
            THEN [conn |-> NoConn, err |-> ErrMissing(KeyPass),
                  lookups |-> <<KeyToken, KeyUrl, KeyUser, KeyPass>>]
        ELSE [conn |-> connect_with_credentials(url.value, user.value, pass.value),
              err |-> NoErr, lookups |-> <<KeyToken, KeyUrl, KeyUser, KeyPass>>]

\* the contexts: each of the four secrets is there or not
Contexts ==
    {[k \in {KeyToken, KeyUrl, KeyUser, KeyPass} |->
        CASE k = KeyToken -> t [] k = KeyUrl -> u [] k = KeyUser -> us [] k = KeyPass -> p] :
        t \in {None, <<"t">>}, u \in {None, <<"a">>},
        us \in {None, <<"u">>}, p \in {None, <<"p">>}}

(***************************************************************************)
(* The constructor calls: their inputs, and the specification that makes   *)
(* one call.                                                               *)
(***************************************************************************)
UrlChars == {"a", ":", "/"}
UrlStrings == SeqsUpTo(UrlChars, MaxUrlLen)
Tokens == {<<>>, <<"t">>}
Usernames == {<<>>, <<"u">>}
Passwords == {<<>>, <<"p">>, <<"p", "w">>}

\* form_urlencoded encoding of one name or value, as the URL parser leaves it
\* in the query: a space is "+"
FormEncode(s) == [i \in 1..Len(s) |-> IF s[i] = " " THEN "+" ELSE s[i]]

\* the query text of a list of pairs: k=v&k=v
RECURSIVE JoinPairs(_)
JoinPairs(pairs) ==
    IF pairs = <<>> THEN <<>>
    ELSE LET kv == FormEncode(pairs[1][1]) \o <<"=">> \o FormEncode(pairs[1][2])
         IN  IF Len(pairs) = 1 THEN kv
             ELSE kv \o <<"&">> \o JoinPairs(Tail(pairs))

PairSamples ==
    {<<TokenKey, <<"A">>>>, <<TokenKey, <<"B", " ">>>>, <<<<"x">>, <<"A">>>>}
PairLists == SeqsUpTo(PairSamples, MaxPairs)

HttpsScheme == <<"h", "t", "t", "p", "s">>

\* parsed Urls: with a host (and any userinfo), with an empty host, without a
\* host, of the file scheme
UrlsOf(pairs) ==
    LET query == IF pairs = <<>> THEN None ELSE JoinPairs(pairs)
    IN  {[scheme |-> sc, has_host |-> TRUE, username |-> us, password |-> pw,
          host |-> <<"h">>, path |-> <<"/">>, query |-> query] :
            sc \in {HttpsScheme, <<"a">>}, us \in Usernames,
            pw \in {None, <<"p">>}}
        \cup
        {[scheme |-> <<"a">>, has_host |-> TRUE, username |-> <<>>, password |-> None,
          host |-> <<>>, path |-> <<>>, query |-> query],
         [scheme |-> <<"a">>, has_host |-> FALSE, username |-> <<>>, password |-> None,
          host |-> <<>>, path |-> <<"x">>, query |-> query],
         [scheme |-> FileScheme, has_host |-> FALSE, username |-> <<>>, password |-> None,
          host |-> <<>>, path |-> <<"/", "x">>, query |-> query],
         [scheme |-> FileScheme, has_host |-> TRUE, username |-> <<>>, password |-> None,
          host |-> <<"h">>, path |-> <<"/", "x">>, query |-> query]}

NoCall == [op |-> "none"]

\* what a constructor call returns
Construct(c) ==
    CASE c.op = "connect" ->
            [conn |-> connect(c.url, c.token), err |-> NoErr, lookups |-> <<>>]
      [] c.op = "connect_with_credentials" ->
            [conn |-> connect_with_credentials(c.url, c.username, c.pass), err |-> NoErr,
             lookups |-> <<>>]
      [] c.op = "connect_from_url" ->
            [conn |-> connect_from_url(c.url).conn, err |-> connect_from_url(c.url).err,
             lookups |-> <<>>]
      [] c.op = "connect_from_ctx" ->
            connect_from_ctx(c.ctx)

\* the state after the call c
Made(c) ==
    /\ call' = c
    /\ conn' = Construct(c).conn
    /\ cerr' = Construct(c).err
    /\ lookups' = Construct(c).lookups

Connect ==
    /\ call = NoCall
    /\ \E url \in UrlStrings, token \in Tokens :
           Made([op |-> "connect", url |-> url, token |-> token])
    /\ UNCHANGED batchVars

ConnectWithCredentials ==
    /\ call = NoCall
    /\ \E url \in UrlStrings, username \in Usernames, pass \in Passwords :
           Made([op |-> "connect_with_credentials", url |-> url,
                 username |-> username, pass |-> pass])
    /\ UNCHANGED batchVars

ConnectFromUrl ==
    /\ call = NoCall
    /\ \E pairs \in PairLists :
           \E u \in UrlsOf(pairs) :
               Made([op |-> "connect_from_url", url |-> u, pairs |-> pairs])
    /\ UNCHANGED batchVars

ConnectFromCtx ==
    /\ call = NoCall
    /\ \E ctx \in Contexts : Made([op |-> "connect_from_ctx", ctx |-> ctx])
    /\ UNCHANGED batchVars

(***************************************************************************)
(* batch: the collaborators.                                               *)
(***************************************************************************)
Tasks == {1, 2}

\* statements are short SQL texts
StmtTexts == {<<"a">>, <<"b">>}
Batches == SeqsUpTo(StmtTexts, MaxStmts)

\* the batches of two concurrent calls: different statement sets
ParBatch == <<{<<<<"a">>, <<"b">>>>}, {<<<<"b">>>>, <<>>}>>

\* connection::statements_to_string: the body (the statements, quoted, between
\* brackets) and how many they are
RECURSIVE JoinStmts(_)
JoinStmts(ss) ==
    IF ss = <<>> THEN <<>>
    ELSE LET q == <<"\"">> \o ss[1] \o <<"\"">>
         IN  IF Len(ss) = 1 THEN q ELSE q \o <<",">> \o JoinStmts(Tail(ss))

statements_to_string(ss) ==
    [body |-> <<"[">> \o JoinStmts(ss) \o <<"]">>, count |-> Len(ss)]

\* Headers::append refuses a value with a line feed inside it
ValidHeaderValue(v) == \A i \in 1..Len(v) : v[i] # LF

\* headers.append(name, value): the headers after it, and whether it was refused
HeadersAppend(headers, name, value) ==
    IF ValidHeaderValue(value)
        THEN [ok |-> TRUE, headers |-> Append(headers, <<name, value>>)]
        ELSE [ok |-> FALSE, headers |-> headers]

\* Request::new_with_init: the platform accepts the URL or refuses it
RequestNew(url, request_init, accepted) ==
    IF accepted THEN [ok |-> TRUE, req |-> [url |-> url, init |-> request_init]]
    ELSE [ok |-> FALSE, req |-> [url |-> url, init |-> request_init]]

\* what send().await resolves to: a transport error, or a response with a status
OkStatus == 200
OtherStatuses == {404, 500}
SendOutcomes ==
    {[kind |-> "error", status |-> 0]}
    \cup {[kind |-> "response", status |-> st] : st \in {OkStatus} \cup OtherStatuses}

\* what response.text().await resolves to: a read error, a text that is no JSON,
\* or the text of a JSON array of results
ResultValues == {"r1", "r2"}
TextOutcomes ==
    {[kind |-> "read_error", results |-> <<>>], [kind |-> "malformed", results |-> <<>>]}
    \cup {[kind |-> "array", results |-> r] : r \in SeqsUpTo(ResultValues, MaxStmts + 1)}

\* connection::json_to_query_result: the results, when they are as many as the
\* statements
json_to_query_result(response_json, stmts_count) ==
    IF Len(response_json) = stmts_count
        THEN [ok |-> TRUE, rows |-> response_json]
        ELSE [ok |-> FALSE, rows |-> <<>>]

NoResult == [state |-> "pending", rows |-> <<>>, kind |-> "", code |-> 0, body |-> None]
Ok(rows) == [state |-> "ok", rows |-> rows, kind |-> "", code |-> 0, body |-> None]
Err(kind, code, body) ==
    [state |-> "err", rows |-> <<>>, kind |-> kind, code |-> code, body |-> body]

\* line 166: the first request goes to url_for_queries
PrimaryUrl(c) == c.url_for_queries

\* a variant of FallbackUrl that retries the same route
FallbackUrlSameRoute(c) == c.url_for_queries

\* line 172: the retry goes to the legacy route, base_url
FallbackUrl(c) == c.base_url

\* a variant of Kept that retries a bad status only, not a failed send
KeptUnlessStatus(out) == out.kind = "error" \/ out.status = OkStatus

\* line 169: the first send is kept when it gave a response with status 200
Kept(out) == out.kind = "response" /\ out.status = OkStatus

\* a variant of StatusError that reports a bad status as a failed send
StatusErrorAsTransport(r) == Err("transport", 0, None)

\* line 178: the error for a response whose status is not 200
StatusError(r) == Err("status", r.status, None)

\* a variant of Outcome that returns the decoded results last first
RECURSIVE Reversed(_)
Reversed(q) == IF q = <<>> THEN <<>> ELSE Append(Reversed(Tail(q)), Head(q))

OutcomeReversed(read, stmts_count, body) ==
    LET decoded == json_to_query_result(read.results, stmts_count)
    IN  IF read.kind = "read_error" THEN Err("read", 0, None)
        ELSE IF read.kind = "malformed" THEN Err("json", 0, None)
        ELSE IF decoded.ok THEN Ok(Reversed(decoded.rows))
        ELSE Err("decode", 0, body)

\* a variant of Outcome that lets a failed decode pass as an empty result
OutcomeLenient(read, stmts_count, body) ==
    LET decoded == json_to_query_result(read.results, stmts_count)
    IN  IF read.kind = "read_error" THEN Err("read", 0, None)
        ELSE IF read.kind = "malformed" THEN Err("json", 0, None)
        ELSE Ok(decoded.rows)

\* a variant of Outcome whose decode error leaves the request body out
OutcomeNoBody(read, stmts_count, body) ==
    LET decoded == json_to_query_result(read.results, stmts_count)
    IN  IF read.kind = "read_error" THEN Err("read", 0, None)
        ELSE IF read.kind = "malformed" THEN Err("json", 0, None)
        ELSE IF decoded.ok THEN Ok(decoded.rows)
        ELSE Err("decode", 0, None)

\* a variant of Outcome whose decode error keeps the results it was given
OutcomePartial(read, stmts_count, body) ==
    LET decoded == json_to_query_result(read.results, stmts_count)
    IN  IF read.kind = "read_error" THEN Err("read", 0, None)
        ELSE IF read.kind = "malformed" THEN Err("json", 0, None)
        ELSE IF decoded.ok THEN Ok(decoded.rows)
        ELSE [Err("decode", 0, body) EXCEPT !.rows = read.results]

\* lines 180-183: what batch returns once the text is read
Outcome(read, stmts_count, body) ==
    LET decoded == json_to_query_result(read.results, stmts_count)
    IN  IF read.kind = "read_error" THEN Err("read", 0, None)
        ELSE IF read.kind = "malformed" THEN Err("json", 0, None)
        ELSE IF decoded.ok THEN Ok(decoded.rows)
        ELSE Err("decode", 0, body)

NoInit == [body |-> None, headers |-> <<>>, method |-> "", redirect |-> ""]
NoResp == [status |-> 0, of |-> 0]
NoText == [kind |-> "none", results |-> <<>>]

(***************************************************************************)
(* batch: one action per stretch of code between two suspension points.    *)
(***************************************************************************)
Return(t, r) ==
    /\ pc' = [pc EXCEPT ![t] = "done"]
    /\ result' = [result EXCEPT ![t] = r]

\* a variant of Start that turns to base_url when the request to url_for_queries
\* cannot be made
StartFallsBack(t, ss, accepted) ==
    LET appended == HeadersAppend(<<>>, "Authorization", conn.auth)
        encoded == statements_to_string(ss)
        request_init == [body |-> encoded.body, headers |-> appended.headers,
                         method |-> "POST", redirect |-> "follow"]
        req == RequestNew(PrimaryUrl(conn), request_init, accepted)
    IN  /\ pc[t] = "idle"
        /\ stmts' = [stmts EXCEPT ![t] = ss]
        /\ init' = [init EXCEPT ![t] = request_init]
        /\ count' = [count EXCEPT ![t] = encoded.count]
        /\ IF req.ok
              THEN /\ reqs' = [reqs EXCEPT ![t] = Append(@, req.req)]
                   /\ pc' = [pc EXCEPT ![t] = "primary"]
              ELSE /\ reqs' = [reqs EXCEPT ![t] =
                                   Append(@, [url |-> FallbackUrl(conn), init |-> request_init])]
                   /\ pc' = [pc EXCEPT ![t] = "fallback"]
        /\ UNCHANGED <<call, conn, cerr, lookups, outs, response, resp, result>>

\* lines 156-167: the headers, the body, the request to url_for_queries, its send
\* (request_init and stmts_count are locals of the call: each call has its own)
Start(t, ss, accepted) ==
    LET appended == HeadersAppend(<<>>, "Authorization", conn.auth)
        encoded == statements_to_string(ss)
        request_init == [body |-> encoded.body, headers |-> appended.headers,
                         method |-> "POST", redirect |-> "follow"]
        req == RequestNew(PrimaryUrl(conn), request_init, accepted)
    IN  /\ pc[t] = "idle"
        /\ stmts' = [stmts EXCEPT ![t] = ss]
        /\ init' = [init EXCEPT ![t] = request_init]
        /\ count' = [count EXCEPT ![t] = encoded.count]
        /\ IF req.ok
              THEN /\ reqs' = [reqs EXCEPT ![t] = Append(@, req.req)]
                   /\ pc' = [pc EXCEPT ![t] = "primary"]
                   /\ UNCHANGED result
              ELSE /\ Return(t, Err("request", 0, None))
                   /\ UNCHANGED reqs
        /\ UNCHANGED <<call, conn, cerr, lookups, outs, response, resp>>

\* lines 168-180, resumed by the first send: keep a 200 response and read its
\* text, or send the same request_init to base_url
PrimaryResolved(t, out, accepted) ==
    LET req == RequestNew(FallbackUrl(conn), init[t], accepted)
    IN  /\ pc[t] = "primary"
        /\ outs' = [outs EXCEPT ![t] = Append(@, out)]
        /\ IF Kept(out)
              THEN /\ response' = [response EXCEPT ![t] = [status |-> out.status, of |-> 1]]
                   /\ IF out.status # OkStatus
                         THEN Return(t, StatusError(out))
                         ELSE /\ pc' = [pc EXCEPT ![t] = "text"]
                              /\ UNCHANGED result
                   /\ UNCHANGED reqs
              ELSE IF req.ok
                  THEN /\ reqs' = [reqs EXCEPT ![t] = Append(@, req.req)]
                       /\ pc' = [pc EXCEPT ![t] = "fallback"]
                       /\ UNCHANGED <<response, result>>
                  ELSE /\ Return(t, Err("request", 0, None))
                       /\ UNCHANGED <<reqs, response>>
        /\ UNCHANGED <<call, conn, cerr, lookups, stmts, init, count, resp>>

\* a variant of FallbackResolved that sends once more when the second send fails
FallbackResolvedAgain(t, out) ==
    /\ pc[t] = "fallback"
    /\ outs' = [outs EXCEPT ![t] = Append(@, out)]
    /\ IF out.kind = "error"
          THEN /\ reqs' = [reqs EXCEPT ![t] = Append(@, [url |-> FallbackUrl(conn), init |-> init[t]])]
               /\ UNCHANGED <<pc, result, response>>
          ELSE /\ response' = [response EXCEPT ![t] = [status |-> out.status, of |-> 2]]
               /\ UNCHANGED reqs
               /\ IF out.status # OkStatus
                     THEN Return(t, StatusError(out))
                     ELSE /\ pc' = [pc EXCEPT ![t] = "text"]
                          /\ UNCHANGED result
    /\ UNCHANGED <<call, conn, cerr, lookups, stmts, init, count, resp>>

\* a variant of FallbackResolved that reads the text of the response before it
\* looks at the status
FallbackResolvedReadsFirst(t, out) ==
    /\ pc[t] = "fallback"
    /\ outs' = [outs EXCEPT ![t] = Append(@, out)]
    /\ IF out.kind = "error"
          THEN /\ Return(t, Err("transport", 0, None))
               /\ UNCHANGED response
          ELSE /\ response' = [response EXCEPT ![t] = [status |-> out.status, of |-> 2]]
               /\ pc' = [pc EXCEPT ![t] = "text"]
               /\ UNCHANGED result
    /\ UNCHANGED <<call, conn, cerr, lookups, stmts, init, count, reqs, resp>>

\* lines 174-180, resumed by the second send
FallbackResolved(t, out) ==
    /\ pc[t] = "fallback"
    /\ outs' = [outs EXCEPT ![t] = Append(@, out)]
    /\ IF out.kind = "error"
          THEN /\ Return(t, Err("transport", 0, None))
               /\ UNCHANGED response
          ELSE /\ response' = [response EXCEPT ![t] = [status |-> out.status, of |-> 2]]
               /\ IF out.status # OkStatus
                     THEN Return(t, StatusError(out))
                     ELSE /\ pc' = [pc EXCEPT ![t] = "text"]
                          /\ UNCHANGED result
    /\ UNCHANGED <<call, conn, cerr, lookups, stmts, init, count, reqs, resp>>

\* a variant of TextResolved that stores the route that answered as the
\* connection's base_url
TextResolvedRebinds(t, read) ==
    /\ pc[t] = "text"
    /\ resp' = [resp EXCEPT ![t] = read]
    /\ Return(t, Outcome(read, count[t], init[t].body))
    /\ conn' = [conn EXCEPT !.base_url = reqs[t][Len(reqs[t])].url]
    /\ UNCHANGED <<call, cerr, lookups, stmts, init, count, reqs, outs, response>>

\* lines 180-183, resumed by the read of the text
TextResolved(t, read) ==
    /\ pc[t] = "text"
    /\ resp' = [resp EXCEPT ![t] = read]
    /\ Return(t, Outcome(read, count[t], init[t].body))
    /\ UNCHANGED <<call, conn, cerr, lookups, stmts, init, count, reqs, outs, response>>

(***************************************************************************)
(* The specifications.                                                     *)
(***************************************************************************)
BatchInit ==
    /\ pc = [t \in Tasks |-> "idle"]
    /\ stmts = [t \in Tasks |-> <<>>]
    /\ init = [t \in Tasks |-> NoInit]
    /\ count = [t \in Tasks |-> 0]
    /\ reqs = [t \in Tasks |-> <<>>]
    /\ outs = [t \in Tasks |-> <<>>]
    /\ response = [t \in Tasks |-> NoResp]
    /\ resp = [t \in Tasks |-> NoText]
    /\ result = [t \in Tasks |-> NoResult]

\* the connections batch is run on: a Bearer one, a Bearer one whose token holds a
\* line feed, a Basic one, and the two kinds connect_from_url makes
SampleUrl(pairs) ==
    [scheme |-> HttpsScheme, has_host |-> TRUE, username |-> <<"u">>,
     password |-> <<"p">>, host |-> <<"h">>, path |-> <<"/">>,
     query |-> IF pairs = <<>> THEN None ELSE JoinPairs(pairs)]

SampleCalls ==
    <<[op |-> "connect", url |-> <<"a">>, token |-> <<"t">>],
     [op |-> "connect", url |-> <<"a">>, token |-> <<"t", LF, "x">>],
     [op |-> "connect_with_credentials", url |-> <<"a", ":", "/", "/", "a">>,
      username |-> <<"u">>, pass |-> <<"p">>],
     [op |-> "connect_from_url", url |-> SampleUrl(<<<<TokenKey, <<"A">>>>>>),
      pairs |-> <<<<TokenKey, <<"A">>>>>>],
     [op |-> "connect_from_url", url |-> SampleUrl(<<>>), pairs |-> <<>>]>>

\* one constructor call
InitConnect ==
    /\ call = NoCall
    /\ conn = NoConn
    /\ cerr = NoErr
    /\ lookups = <<>>
    /\ BatchInit

NextConnect == Connect \/ ConnectWithCredentials \/ ConnectFromUrl \/ ConnectFromCtx

SpecConnect == InitConnect /\ [][NextConnect]_vars

\* one batch call on a constructed Connection
Init ==
    /\ \E i \in 1..Len(SampleCalls) : call = SampleCalls[i]
    /\ conn = Construct(call).conn
    /\ cerr = Construct(call).err
    /\ lookups = Construct(call).lookups
    /\ BatchInit

Next ==
    \/ \E ss \in Batches, accepted \in BOOLEAN : Start(1, ss, accepted)
    \/ \E out \in SendOutcomes, accepted \in BOOLEAN : PrimaryResolved(1, out, accepted)
    \/ \E out \in SendOutcomes : FallbackResolved(1, out)
    \/ \E read \in TextOutcomes : TextResolved(1, read)

Spec == Init /\ [][Next]_vars

\* two concurrent batch calls on the same Connection
NextPar ==
    \E t \in Tasks :
        \/ \E ss \in ParBatch[t], accepted \in BOOLEAN : Start(t, ss, accepted)
        \/ \E out \in SendOutcomes, accepted \in BOOLEAN : PrimaryResolved(t, out, accepted)
        \/ \E out \in SendOutcomes : FallbackResolved(t, out)
        \/ \E read \in TextOutcomes : TextResolved(t, read)

SpecPar == Init /\ [][NextPar]_vars

\* the same, when every send and every read of a text that is awaited returns
NetworkReturns ==
    \A t \in Tasks :
        /\ WF_vars(\E out \in SendOutcomes, accepted \in BOOLEAN : PrimaryResolved(t, out, accepted))
        /\ WF_vars(\E out \in SendOutcomes : FallbackResolved(t, out))
        /\ WF_vars(\E read \in TextOutcomes : TextResolved(t, read))

SpecFair == Init /\ [][NextPar]_vars /\ NetworkReturns

(***************************************************************************)
(* What the claims speak of.                                               *)
(***************************************************************************)
Is200(out) == out.kind = "response" /\ out.status = 200

\* the first send of call t resolved, and not to a 200 response
PrimaryFailed(t) == Len(outs[t]) >= 1 /\ ~Is200(outs[t][1])

\* call t sent exactly two requests, the second to base_url with the body and the
\* headers of the first
FallbackSent(t) ==
    /\ Len(reqs[t]) = 2
    /\ reqs[t][1].url = conn.url_for_queries
    /\ reqs[t][2].url = conn.base_url
    /\ reqs[t][2].init.body = reqs[t][1].init.body
    /\ reqs[t][2].init.headers = reqs[t][1].init.headers
    /\ reqs[t][2].init.method = "POST"

\* the text read by call t is an array of as many results as it gave statements
ValidText(t) == resp[t].kind = "array" /\ Len(resp[t].results) = Len(stmts[t])

\* the second send of call t resolved to a 200 response whose text is valid
FallbackValid(t) == Len(outs[t]) = 2 /\ Is200(outs[t][2]) /\ ValidText(t)

\* call t returned an error of this kind
Failed(t, kind) == pc[t] = "done" /\ result[t].state = "err" /\ result[t].kind = kind

\* call t returned these results
Succeeded(t, rows) == pc[t] = "done" /\ result[t].state = "ok" /\ result[t].rows = rows

(***************************************************************************)
(* C1, as stated: whenever the first POST fails to send or gives a status  *)
(* other than 200, exactly one more POST is issued, to base_url, with the  *)
(* same body and headers; and if that one gives 200 with a valid response, *)
(* batch returns the results of that response, after exactly two requests. *)
(***************************************************************************)
C1_FallbackAlwaysSent ==
    \A t \in Tasks :
        PrimaryFailed(t) =>
            /\ FallbackSent(t)
            /\ FallbackValid(t) => Succeeded(t, resp[t].results) /\ response[t].of = 2

(***************************************************************************)
(* C1, amended: whenever the first POST fails to send or gives a status    *)
(* other than 200, either exactly one more POST is issued, to base_url,    *)
(* with the same body and headers, or the request for base_url could not   *)
(* be built and batch returned that error after the one request; and if    *)
(* the second POST gives 200 with a valid response, batch returns the      *)
(* results of that response, after exactly two requests.                   *)
(***************************************************************************)
C1_FallbackSentUnlessUnbuildable ==
    \A t \in Tasks :
        PrimaryFailed(t) =>
            /\ \/ FallbackSent(t)
               \/ /\ Len(reqs[t]) = 1
                  /\ Len(outs[t]) = 1
                  /\ Failed(t, "request")
            /\ FallbackValid(t) =>
                   /\ Succeeded(t, resp[t].results)
                   /\ response[t].of = 2
                   /\ Len(reqs[t]) = 2

C1_Witness ==
    \E t \in Tasks :
        /\ Len(outs[t]) = 2
        /\ outs[t][1].kind = "error"
        /\ FallbackSent(t)
        /\ FallbackValid(t)
        /\ Len(stmts[t]) = 2
        /\ Succeeded(t, <<"r2", "r1">>)

(***************************************************************************)
(* C2: when the first POST gives 200 and its text is an array of as many   *)
(* results as there were statements, batch returns that array, unchanged   *)
(* and in order, and exactly one request was sent, to url_for_queries.     *)
(***************************************************************************)
C2_PrimarySuccess ==
    \A t \in Tasks :
        (Len(outs[t]) >= 1 /\ Is200(outs[t][1]) /\ ValidText(t)) =>
            /\ Succeeded(t, resp[t].results)
            /\ Len(reqs[t]) = 1
            /\ reqs[t][1].url = conn.url_for_queries
            /\ Len(outs[t]) = 1

C2_Witness ==
    \E t \in Tasks :
        /\ Len(outs[t]) = 1
        /\ Is200(outs[t][1])
        /\ Len(stmts[t]) = 2
        /\ resp[t] = [kind |-> "array", results |-> <<"r2", "r1">>]
        /\ Succeeded(t, <<"r2", "r1">>)
        /\ Len(reqs[t]) = 1

(***************************************************************************)
(* C3: a batch call sends at most two requests, the first to               *)
(* url_for_queries and the second to base_url; when both sends fail, batch *)
(* has returned an error and still sent two.                               *)
(***************************************************************************)
C3_AtMostTwoRequests ==
    \A t \in Tasks :
        /\ Len(reqs[t]) <= 2
        /\ Len(outs[t]) <= Len(reqs[t])
        /\ Len(reqs[t]) >= 1 => reqs[t][1].url = conn.url_for_queries
        /\ Len(reqs[t]) = 2 => reqs[t][2].url = conn.base_url
        /\ (Len(outs[t]) = 2 /\ outs[t][1].kind = "error" /\ outs[t][2].kind = "error") =>
               /\ pc[t] = "done"
               /\ result[t].state = "err"
               /\ Len(reqs[t]) = 2

C3_Witness ==
    \E t \in Tasks :
        /\ Len(outs[t]) = 2
        /\ outs[t][1].kind = "error"
        /\ outs[t][2].kind = "error"
        /\ Failed(t, "transport")
        /\ Len(reqs[t]) = 2

(***************************************************************************)
(* C4: when the text of a 200 response, of the first or the second POST,   *)
(* is an array whose length differs from the number of statements, batch   *)
(* has returned a decode error and sent nothing after the request that     *)
(* response answers: that was its last request.                            *)
(***************************************************************************)
C4_DecodeErrorIsFinal ==
    \A t \in Tasks :
        (resp[t].kind = "array" /\ Len(resp[t].results) # Len(stmts[t])) =>
            /\ Failed(t, "decode")
            /\ response[t].status = 200
            /\ Len(reqs[t]) = response[t].of
            /\ Len(outs[t]) = response[t].of

C4_Witness ==
    \E t \in Tasks :
        /\ Len(outs[t]) = 1
        /\ Is200(outs[t][1])
        /\ Len(stmts[t]) = 2
        /\ resp[t] = [kind |-> "array", results |-> <<"r1">>]
        /\ Failed(t, "decode")
        /\ Len(reqs[t]) = 1

(***************************************************************************)
(* C5, as stated: when the second POST does not give 200, batch returns    *)
(* the status error with that response's code if there is a response, and  *)
(* a transport error only if no send of the call gave a status.            *)
(***************************************************************************)
C5_TransportOnlyWithoutStatus ==
    \A t \in Tasks :
        (Len(outs[t]) = 2 /\ ~Is200(outs[t][2])) =>
            /\ outs[t][2].kind = "response" =>
                   Failed(t, "status") /\ result[t].code = outs[t][2].status
            /\ Failed(t, "transport") =>
                   \A i \in 1..2 : outs[t][i].kind = "error"

(***************************************************************************)
(* C5, amended: when the second POST does not give 200, batch returns the  *)
(* status error with that response's code if there is a response, and a    *)
(* transport error exactly when the second send itself failed, whether or  *)
(* not the first send had given a status.                                  *)
(***************************************************************************)
C5_TransportWhenFallbackSendFails ==
    \A t \in Tasks :
        (Len(outs[t]) = 2 /\ ~Is200(outs[t][2])) =>
            /\ outs[t][2].kind = "response" =>
                   Failed(t, "status") /\ result[t].code = outs[t][2].status
            /\ Failed(t, "transport") <=> outs[t][2].kind = "error"

C5_Witness ==
    \E t \in Tasks :
        /\ Len(outs[t]) = 2
        /\ outs[t][1] = [kind |-> "response", status |-> 500]
        /\ outs[t][2].kind = "error"
        /\ Failed(t, "transport")

(***************************************************************************)
(* C6, as stated: of two concurrent batch calls on one Connection with     *)
(* different statements, under any interleaving, every request of a call   *)
(* carries the body of that call's statements and the connection's auth    *)
(* header and nothing else of the other call, and a call that returns      *)
(* results returns those of its own response, as many as its statements.   *)
(***************************************************************************)
OwnBody(t) == \A i \in 1..Len(reqs[t]) : reqs[t][i].init.body = statements_to_string(stmts[t]).body

OwnResults(t) ==
    result[t].state = "ok" =>
        /\ result[t].rows = resp[t].results
        /\ Len(result[t].rows) = Len(stmts[t])

C6_ConcurrentCallsIndependent ==
    /\ \A t \in Tasks :
           /\ OwnBody(t)
           /\ OwnResults(t)
           /\ \A i \in 1..Len(reqs[t]) :
                  reqs[t][i].init.headers = <<<<"Authorization", conn.auth>>>>
    /\ \A t, u \in Tasks :
           (t # u /\ reqs[t] # <<>> /\ reqs[u] # <<>>) =>
               reqs[t][1].init.body # reqs[u][1].init.body

(***************************************************************************)
(* The part of C6 that is about the two calls only: bodies and results are *)
(* each call's own, and a request carries no header but the connection's   *)
(* auth header.                                                            *)
(***************************************************************************)
NoCrossContamination ==
    /\ \A t \in Tasks :
           /\ OwnBody(t)
           /\ OwnResults(t)
           /\ \A i \in 1..Len(reqs[t]) :
                  reqs[t][i].init.headers \in {<<>>, <<<<"Authorization", conn.auth>>>>}
    /\ \A t, u \in Tasks :
           (t # u /\ reqs[t] # <<>> /\ reqs[u] # <<>>) =>
               reqs[t][1].init.body # reqs[u][1].init.body

(***************************************************************************)
(* C7: connect and connect_with_credentials store base_url = "https://" +  *)
(* url when url holds no "://" and base_url = url when it holds "://" at   *)
(* any place, and the two normalize alike.                                 *)
(***************************************************************************)
HoldsSchemeSep(s) ==
    \E i \in 1..Len(s) :
        i + 2 <= Len(s) /\ s[i] = ":" /\ s[i + 1] = "/" /\ s[i + 2] = "/"

Normalized(url) ==
    IF HoldsSchemeSep(url) THEN url
    ELSE <<"h", "t", "t", "p", "s", ":", "/", "/">> \o url

C7_UrlNormalized ==
    call.op \in {"connect", "connect_with_credentials"} =>
        /\ cerr = NoErr
        /\ conn.base_url = Normalized(call.url)
        /\ connect(call.url, <<>>).base_url
               = connect_with_credentials(call.url, <<>>, <<>>).base_url

C7_Witness ==
    /\ call.op = "connect_with_credentials"
    /\ call.url = <<"a", ":", "/", "/">>
    /\ conn.base_url = call.url

(***************************************************************************)
(* C8: the Connection of any constructor has url_for_queries = base_url +  *)
(* "/queries"; the first request of a batch call goes to url_for_queries,  *)
(* its second to base_url, and no request goes anywhere else.              *)
(***************************************************************************)
C8_RequestTargets ==
    /\ conn.url_for_queries = conn.base_url \o <<"/", "q", "u", "e", "r", "i", "e", "s">>
    /\ \A t \in Tasks :
           \A i \in 1..Len(reqs[t]) :
               /\ i = 1 => reqs[t][i].url = conn.url_for_queries
               /\ i = 2 => reqs[t][i].url = conn.base_url
               /\ i <= 2

\* the first part of C8 alone, for the Connection of every constructor call
QueriesUrlDerived ==
    conn # NoConn =>
        conn.url_for_queries = conn.base_url \o <<"/", "q", "u", "e", "r", "i", "e", "s">>

C8_Witness ==
    \E t \in Tasks :
        /\ call.op = "connect_from_url"
        /\ Len(reqs[t]) = 2
        /\ reqs[t][1].url = reqs[t][2].url \o <<"/", "q", "u", "e", "r", "i", "e", "s">>
        /\ reqs[t][2].url = conn.base_url

(***************************************************************************)
(* C9: connect_from_url of a Url whose query has a pair named token gives  *)
(* a Connection with auth = "Bearer " + the value of the first such pair,  *)
(* whatever userinfo the Url has; the string handed on as the url is the   *)
(* Url's whole string form, with the token pair and the userinfo in it, so *)
(* that base_url is that string as connect normalizes it.                  *)
(***************************************************************************)
TokenPairs(pairs) == SelectSeq(pairs, LAMBDA kv : kv[1] = <<"t", "o", "k", "e", "n">>)

UserinfoOf(u) ==
    IF u.username = <<>> /\ u.password = None THEN <<>>
    ELSE u.username \o (IF u.password = None THEN <<>> ELSE <<":">> \o u.password) \o <<"@">>

C9_TokenFromQuery ==
    (call.op = "connect_from_url" /\ TokenPairs(call.pairs) # <<>>) =>
        LET first == TokenPairs(call.pairs)[1]
        IN  /\ cerr = NoErr
            /\ conn.auth = <<"B", "e", "a", "r", "e", "r", " ">> \o first[2]
            /\ conn.base_url = Normalized(AsStr(call.url))
            /\ Contains(conn.base_url, TokenKey \o <<"=">> \o FormEncode(first[2]))
            /\ Contains(conn.base_url, UserinfoOf(call.url))
            /\ conn.url_for_queries = conn.base_url \o QueriesSuffix

C9_Witness ==
    /\ call.op = "connect_from_url"
    /\ call.pairs = <<<<TokenKey, <<"B", " ">>>>, <<TokenKey, <<"A">>>>>>
    /\ call.url.username = <<"u">>
    /\ call.url.password = <<"p">>
    /\ conn.auth = BearerPrefix \o <<"B", " ">>
    /\ Contains(conn.base_url, <<"u", ":", "p", "@">>)

(***************************************************************************)
(* C10: connect_from_url of a Url with userinfo and no pair named token    *)
(* gives a Basic Connection for the username and the password (the empty   *)
(* string when there is none), whose base_url holds no userinfo; when the  *)
(* userinfo cannot be cleared (no host, an empty host, the file scheme) it  *)
(* gives an error and no Connection.                                       *)
(***************************************************************************)
C10_BasicFromUserinfo ==
    (call.op = "connect_from_url" /\ TokenPairs(call.pairs) = <<>>) =>
        LET u == call.url
            p == IF u.password = None THEN <<>> ELSE u.password
            bare == [u EXCEPT !.username = <<>>, !.password = None]
        IN  IF ~u.has_host \/ u.host = <<>> \/ u.scheme = <<"f", "i", "l", "e">>
                THEN conn = NoConn /\ cerr # NoErr
                ELSE /\ cerr = NoErr
                     /\ conn.auth = <<"B", "a", "s", "i", "c", " ">>
                                        \o Base64Encode(u.username \o <<":">> \o p)
                     /\ conn.base_url = AsStr(bare)
                     /\ ~Contains(conn.base_url, <<"@">>)
                     /\ conn.url_for_queries = conn.base_url \o QueriesSuffix

C10_Witness ==
    /\ call.op = "connect_from_url"
    /\ call.url.username = <<"u">>
    /\ call.url.password = <<"p">>
    /\ call.url.scheme = HttpsScheme
    /\ call.pairs = <<<<<<"x">>, <<"A">>>>>>
    /\ conn.auth = BasicPrefix \o <<"d", "T", "p", "w">>
    /\ conn.base_url = Https \o <<"h", "/", "?", "x", "=", "A">>

(***************************************************************************)
(* C11: connect_with_credentials gives auth = "Basic " + the base64 of     *)
(* username + ":" + pass, and decoding that base64 gives username + ":" +  *)
(* pass back; connect gives auth = "Bearer " + token; neither fails.       *)
(* The decoder is the standard one (RFC 4648), written from the alphabet:  *)
(* four characters give three bytes, "=" ends a last group of one or two   *)
(* bytes, and the bits left over in such a group must be zero.             *)
(***************************************************************************)
Base64Chars == {Base64Alphabet[i] : i \in 1..Len(Base64Alphabet)}

SextetOf(c) == (CHOOSE i \in 1..Len(Base64Alphabet) : Base64Alphabet[i] = c) - 1

CharOf(b) == IF b = 10 THEN LF ELSE AsciiPrintable[b - 31]

IsByteOfModel(b) == b = 10 \/ (b >= 32 /\ b <= 126)

\* the bytes of one group of four characters, or None when it is no group
DecodeGroup(g, last) ==
    IF g[1] \notin Base64Chars \/ g[2] \notin Base64Chars THEN None
    ELSE LET a == SextetOf(g[1])
             b == SextetOf(g[2])
             b1 == a * 4 + b \div 16
         IN  IF g[3] = "=" THEN
                 IF last /\ g[4] = "=" /\ b % 16 = 0 /\ IsByteOfModel(b1)
                     THEN <<CharOf(b1)>> ELSE None
             ELSE IF g[3] \notin Base64Chars THEN None
             ELSE LET c == SextetOf(g[3])
                      b2 == (b % 16) * 16 + c \div 4
                  IN  IF g[4] = "=" THEN
                          IF last /\ c % 4 = 0 /\ IsByteOfModel(b1) /\ IsByteOfModel(b2)
                              THEN <<CharOf(b1), CharOf(b2)>> ELSE None
                      ELSE IF g[4] \notin Base64Chars THEN None
                      ELSE LET b3 == (c % 4) * 64 + SextetOf(g[4])
                           IN  IF IsByteOfModel(b1) /\ IsByteOfModel(b2) /\ IsByteOfModel(b3)
                                   THEN <<CharOf(b1), CharOf(b2), CharOf(b3)>>
                                   ELSE None

RECURSIVE Base64Decode(_)
Base64Decode(e) ==
    IF e = <<>> THEN <<>>
    ELSE IF Len(e) < 4 THEN None
    ELSE LET head == DecodeGroup(SubSeq(e, 1, 4), Len(e) = 4)
             rest == Base64Decode(SubSeq(e, 5, Len(e)))
         IN  IF head = None \/ rest = None THEN None ELSE head \o rest

C11_AuthHeaders ==
    /\ call.op = "connect_with_credentials" =>
           LET plain == call.username \o <<":">> \o call.pass
               encoded == SubSeq(conn.auth, 7, Len(conn.auth))
           IN  /\ cerr = NoErr
               /\ conn # NoConn
               /\ SubSeq(conn.auth, 1, 6) = <<"B", "a", "s", "i", "c", " ">>
               /\ Len(encoded) = 4 * ((Len(plain) + 2) \div 3)
               /\ Base64Decode(encoded) = plain
    /\ call.op = "connect" =>
           /\ cerr = NoErr
           /\ conn # NoConn
           /\ conn.auth = <<"B", "e", "a", "r", "e", "r", " ">> \o call.token

C11_Witness ==
    /\ call.op = "connect_with_credentials"
    /\ call.username = <<"u">>
    /\ call.pass = <<"p", "w">>
    /\ conn.auth = BasicPrefix \o <<"d", "T", "p", "w", "d", "w", "=", "=">>
    /\ Base64Decode(<<"d", "T", "p", "w", "d", "w", "=", "=">>) = <<"u", ":", "p", "w">>

(***************************************************************************)
(* connect_from_ctx                                                        *)
(***************************************************************************)
Found(key) == call.ctx[key] # None

\* the lookups of the first attempt: the token, and the url once the token
\* is there
TokenAttempt == IF Found(KeyToken) THEN <<KeyToken, KeyUrl>> ELSE <<KeyToken>>

TokenAttemptFailed == ~(Found(KeyToken) /\ Found(KeyUrl))

CredentialsFound == Found(KeyUrl) /\ Found(KeyUser) /\ Found(KeyPass)

\* C12, as stated: connect_from_ctx tries the token and the url first, and
\* whenever a lookup of that attempt fails, also when the token is found and
\* the url is not, it goes on to the three-key lookup, which starts at the
\* url; an error is returned only when that lookup fails too.
C12_AnyFailureFallsBack ==
    (call.op = "connect_from_ctx" /\ TokenAttemptFailed) =>
        /\ Len(lookups) > Len(TokenAttempt)
        /\ SubSeq(lookups, 1, Len(TokenAttempt)) = TokenAttempt
        /\ lookups[Len(TokenAttempt) + 1] = KeyUrl
        /\ (cerr # NoErr) <=> ~CredentialsFound

\* C12, amended: the three-key lookup is made exactly when the token is not
\* found; when the token is found, the url is the only other lookup and its
\* failure is the error returned. The three keys are looked up in order as
\* far as the first one missing, whose error is returned.
C12_FallsBackWhenTokenMissing ==
    call.op = "connect_from_ctx" =>
        /\ Found(KeyToken) =>
               /\ lookups = <<KeyToken, KeyUrl>>
               /\ (cerr = NoErr) <=> Found(KeyUrl)
               /\ Found(KeyUrl) => conn = connect(call.ctx[KeyUrl], call.ctx[KeyToken])
        /\ ~Found(KeyToken) =>
               /\ SubSeq(lookups, 1, 2) = <<KeyToken, KeyUrl>>
               /\ lookups = SubSeq(<<KeyToken, KeyUrl, KeyUser, KeyPass>>, 1, Len(lookups))
               /\ (cerr = NoErr) <=> CredentialsFound
               /\ (cerr # NoErr) => ~Found(lookups[Len(lookups)])
               /\ \A i \in 2..(Len(lookups) - 1) : Found(lookups[i])
               /\ CredentialsFound =>
                      /\ Len(lookups) = 4
                      /\ conn = connect_with_credentials(call.ctx[KeyUrl], call.ctx[KeyUser],
                                                         call.ctx[KeyPass])
        /\ (cerr # NoErr) <=> (conn = NoConn)

\* the token is found, the url is not: the error comes back after two lookups
C12_Witness ==
    /\ call.op = "connect_from_ctx"
    /\ Found(KeyToken)
    /\ ~Found(KeyUrl)
    /\ Found(KeyUser)
    /\ Found(KeyPass)
    /\ lookups = <<KeyToken, KeyUrl>>
    /\ cerr = ErrMissing(KeyUrl)
    /\ conn = NoConn

(***************************************************************************)
(* C13: base_url, url_for_queries and auth are set by the constructor and  *)
(* no step of batch changes them, whatever the call returns and however    *)
(* the steps of concurrent calls interleave.                               *)
(***************************************************************************)
C13_ConnectionUnchanged ==
    [][/\ conn'.base_url = conn.base_url
       /\ conn'.url_for_queries = conn.url_for_queries
       /\ conn'.auth = conn.auth
       /\ conn' = Construct(call).conn]_vars

\* two concurrent calls have returned, one with results and one with an error,
\* the first after its fallback, and the connection is as it was constructed
C13_Witness ==
    /\ pc[1] = "done"
    /\ pc[2] = "done"
    /\ result[1].state = "ok"
    /\ result[2].state = "err"
    /\ Len(reqs[1]) = 2
    /\ Len(reqs[2]) >= 1
    /\ conn = Construct(call).conn

(***************************************************************************)
(* C14, as stated: a call of batch is suspended at its first send and at   *)
(* its second send, and nowhere else.                                      *)
(***************************************************************************)
C14_SuspendsAtSendsOnly ==
    \A t \in Tasks : pc[t] \in {"idle", "primary", "fallback", "done"}

(***************************************************************************)
(* C14, amended: a call of batch is suspended at its first send, at its    *)
(* second send and at the read of the text of a 200 response, and nowhere  *)
(* else. At the first send one request is out and unanswered; at the       *)
(* second, two are out and the first was not answered 200; at the read,    *)
(* every request is answered, the last one 200, and no text is there yet.  *)
(* A call returns results only after that read.                            *)
(***************************************************************************)
C14_SuspendsAtSendsAndRead ==
    \A t \in Tasks :
        /\ pc[t] \in {"idle", "primary", "fallback", "text", "done"}
        /\ pc[t] = "primary" => (Len(reqs[t]) = 1 /\ Len(outs[t]) = 0)
        /\ pc[t] = "fallback" =>
               (Len(reqs[t]) = 2 /\ Len(outs[t]) = 1 /\ ~Is200(outs[t][1]))
        /\ pc[t] = "text" =>
               /\ Len(outs[t]) = Len(reqs[t])
               /\ Len(outs[t]) \in {1, 2}
               /\ Is200(outs[t][Len(outs[t])])
               /\ response[t].status = OkStatus
               /\ resp[t] = NoText
               /\ result[t] = NoResult
        /\ (pc[t] = "done" /\ result[t].state = "ok") => resp[t].kind = "array"

\* a call suspended at the read of the text, after both sends
C14_Witness ==
    /\ pc[1] = "text"
    /\ Len(reqs[1]) = 2
    /\ Len(outs[1]) = 2
    /\ Is200(outs[1][2])
    /\ resp[1] = NoText

(***************************************************************************)
(* C15, as stated: every request batch issues carries the header           *)
(* Authorization with the connection's auth, and when that header cannot   *)
(* be built batch returns an error and issues no request.                  *)
(***************************************************************************)
C15_EveryRequestAuthorized ==
    \A t \in Tasks :
        /\ \A i \in 1..Len(reqs[t]) :
               /\ Len(reqs[t][i].init.headers) = 1
               /\ reqs[t][i].init.headers[1] = <<"Authorization", conn.auth>>
        /\ (pc[t] # "idle" /\ ~HeadersAppend(<<>>, "Authorization", conn.auth).ok) =>
               (reqs[t] = <<>> /\ pc[t] = "done" /\ result[t].state = "err")

(***************************************************************************)
(* C16, as stated: when the text of a 200 response does not decode, being  *)
(* no JSON or an array of another length than the statements, the error    *)
(* batch returns names the cause and carries the body of the request.      *)
(***************************************************************************)
Undecodable(t) ==
    \/ resp[t].kind = "malformed"
    \/ resp[t].kind = "array" /\ Len(resp[t].results) # Len(stmts[t])

C16_DecodeErrorCarriesBody ==
    \A t \in Tasks :
        Undecodable(t) =>
            /\ pc[t] = "done"
            /\ result[t].state = "err"
            /\ result[t].kind \in {"json", "decode"}
            /\ result[t].body = init[t].body

(***************************************************************************)
(* C16, amended: an array of another length than the statements gives an   *)
(* error that names the cause and carries the body of the request, the     *)
(* statements as they were sent; a text that is no JSON gives the parser's *)
(* error, without the body of the request.                                 *)
(***************************************************************************)
C16_CountMismatchCarriesBody ==
    \A t \in Tasks :
        /\ (resp[t].kind = "array" /\ Len(resp[t].results) # Len(stmts[t])) =>
               /\ Failed(t, "decode")
               /\ result[t].body # None
               /\ result[t].body = statements_to_string(stmts[t]).body
               /\ result[t].body = reqs[t][Len(reqs[t])].init.body
        /\ resp[t].kind = "malformed" =>
               /\ Failed(t, "json")
               /\ result[t].body = None

\* the second response is 200 and holds one result for two statements
C16_Witness ==
    /\ Len(outs[1]) = 2
    /\ Is200(outs[1][2])
    /\ Len(stmts[1]) = 2
    /\ resp[1].kind = "array"
    /\ Len(resp[1].results) = 1
    /\ Failed(1, "decode")
    /\ result[1].body = statements_to_string(stmts[1]).body

(***************************************************************************)
(* C17: a request to base_url is the second request of a call, made only   *)
(* after the first send failed or gave a status other than 200; when the   *)
(* request to url_for_queries cannot be made the call returns that error   *)
(* with no request issued and no send; when the request to base_url cannot *)
(* be made the call returns that error after exactly one issued request.   *)
(***************************************************************************)
C17_RequestConstruction ==
    \A t \in Tasks :
        /\ Len(reqs[t]) >= 1 => reqs[t][1].url = PrimaryUrl(conn)
        /\ Len(reqs[t]) >= 2 =>
               /\ reqs[t][2].url = FallbackUrl(conn)
               /\ PrimaryFailed(t)
        /\ Len(reqs[t]) <= 2
        /\ (pc[t] = "done" /\ outs[t] = <<>>) =>
               (Failed(t, "request") /\ reqs[t] = <<>>)
        /\ Failed(t, "request") =>
               \/ outs[t] = <<>> /\ reqs[t] = <<>>
               \/ Len(outs[t]) = 1 /\ ~Is200(outs[t][1]) /\ Len(reqs[t]) = 1

\* one call could not make its first request, the other could not make its second
C17_Witness ==
    /\ Failed(1, "request")
    /\ reqs[1] = <<>>
    /\ outs[1] = <<>>
    /\ Failed(2, "request")
    /\ Len(reqs[2]) = 1
    /\ Len(outs[2]) = 1
    /\ ~Is200(outs[2][1])

(***************************************************************************)
(* C18: when every send and every read that is awaited returns, a call of  *)
(* batch that has started returns; it returns either as many results as    *)
(* it was given statements or one error with no results, after at most two *)
(* sends and at most one read of a text.                                   *)
(***************************************************************************)
OneOutcome(t) ==
    /\ Len(reqs[t]) <= 2
    /\ Len(outs[t]) <= Len(reqs[t])
    /\ pc[t] = "done" =>
           \/ /\ result[t].state = "ok"
              /\ Len(result[t].rows) = Len(stmts[t])
              /\ result[t].kind = ""
           \/ /\ result[t].state = "err"
              /\ result[t].rows = <<>>
              /\ result[t].kind \in {"request", "transport", "status", "read", "json", "decode"}
    /\ pc[t] # "done" => result[t] = NoResult

\* the text is read at most once, and the outcome, once there, stays
ReadOnce(t) ==
    /\ resp'[t] # resp[t] => resp[t] = NoText
    /\ pc[t] = "done" => (pc'[t] = "done" /\ result'[t] = result[t])

C18_BatchCompletes ==
    /\ [](\A t \in Tasks : OneOutcome(t))
    /\ [][\A t \in Tasks : ReadOnce(t)]_vars
    /\ \A t \in Tasks : (pc[t] # "idle") ~> (pc[t] = "done")

\* both calls returned, one its two results after two sends and one read, the
\* other an error
C18_Witness ==
    /\ Succeeded(1, resp[1].results)
    /\ Len(result[1].rows) = 2
    /\ Len(stmts[1]) = 2
    /\ Len(outs[1]) = 2
    /\ pc[2] = "done"
    /\ result[2].state = "err"
    /\ result[2].rows = <<>>

====
